---------------------------- MODULE Spec2Model ----------------------------
(***************************************************************************)
(* A model of the separate-chaining hash table of src/hash_map.rs          *)
(* (HashMap<K, V>) and of the set of src/hash_set.rs built on it: the      *)
(* bucket array, the length counter, the operations insert, remove, get,   *)
(* get_mut, resize, reserve, reserve_exact, shrink_to and shrink_to_fit,   *)
(* and the iterators.                                                      *)
(*                                                                         *)
(* An Option / Option_ value is a sequence of length at most one: <<>> is  *)
(* None and <<x>> is Some(x).  An entry (K, V) is the pair <<k, v>>.       *)
(*                                                                         *)
(* usize values are kept as the representative of the value modulo 2^64    *)
(* that is nearest to zero: a negative number n stands for 2^64 + n, the   *)
(* value a wrapping subtraction leaves in a release build.                 *)
(*                                                                         *)
(* Bucket::vec_of_empties exposes memory it did not write when K or V is   *)
(* zero-sized.  Reading it is undefined behaviour; the model takes each    *)
(* such bucket to read as one of JunkBuckets, zero bytes among them.       *)
(***************************************************************************)
EXTENDS Integers, Sequences, FiniteSets, TLC

VARIABLES
    buckets,   \* HashMap::buckets: the sequence of Bucket records
    len,       \* HashMap::len
    hasher,    \* the Hash implementation of K: "default" or "zero"
    debug,     \* the build profile: TRUE when debug_assertions are on
    status,    \* "ok", the panic that ended the program, or "moved"
    op,        \* the last operation called, with its arguments
    ret,       \* what the last operation returned: an Option, or the
               \* sequence of items of a full iteration
    distinct,  \* TRUE while every call so far was an insert of a new key
    inserted,  \* while distinct: key -> Option of the value inserted for it;
               \* for a set: element -> Some(Unit) once it was inserted
    types,     \* which of K and V are zero-sized: "sized", "value", "key", "both"
    junk,      \* the Bucket that memory left uninitialised is read as
    iterator   \* the Iter, IterMut or IntoIter a caller holds and steps with
               \* next, as an Option: its mode, its fields, the number
               \* of next calls and the items they returned

vars == <<buckets, len, hasher, debug, status, op, ret, distinct, inserted,
          types, junk, iterator>>

(* What a call on the table leaves alone: the hasher, the build, the types *)
(* and an iterator it does not step.                                       *)
env == <<hasher, debug, types, junk, iterator>>

---------------------------------------------------------------------------
(* Bounds of the model. *)

MaxKey == 3          \* keys are 1..MaxKey
MaxVal == 2          \* values are 1..MaxVal
MaxInitCap == 2      \* with_capacity(n) for n in 0..MaxInitCap
MaxResize == 2       \* resize(n) for n in 1..MaxResize
MaxAdditional == 1   \* reserve(n), reserve_exact(n) for n in 0..MaxAdditional
MaxMinCap == 1       \* shrink_to(n) for n in 0..MaxMinCap
MaxLen == 3          \* insert is not called once len has reached MaxLen
MaxUnder == 1        \* remove is not called once len has wrapped MaxUnder times
MaxEntries == 3      \* insert is not called once MaxEntries entries are stored
MaxCap == 32         \* no operation is called that would allocate more buckets
MaxGrowKey == 4      \* keys of SpecDistinctInserts and SpecNewKeys
MaxGrowLen == 4      \* there, insert is not called once len has reached it
MaxTypesLen == 2     \* the same for SpecTypes, SpecZst and SpecSet
MaxNone == 2         \* next is not called once it has returned None MaxNone times

(* Constants of the program. *)

INIT_CAPACITY == 32
GROWTH_FACTOR == 4
LOAD_FACTOR_MAX_NUM == 3
LOAD_FACTOR_MAX_DEN == 4

Keys == 1..MaxKey
GrowKeys == 1..MaxGrowKey
AllKeys == Keys \cup GrowKeys
Vals == 1..MaxVal

(* The one value of a zero-sized type, () in the tests and in HashSet. *)
Unit == 0

---------------------------------------------------------------------------
(* Option and Option_. *)

None == <<>>
Some(x) == <<x>>
IsSome(o) == o # <<>>
Unwrap(o) == o[1]

(* fn hash(hasher, x) -> u64, for the two Hash implementations of the      *)
(* tests: the derived one under DefaultHasher (distinct keys get distinct  *)
(* hashes; the key itself stands for its hash) and Thing's, which hashes   *)
(* 0u64 whatever the key.                                                  *)
hash(h, k) == IF h = "zero" THEN 0 ELSE k

---------------------------------------------------------------------------
(* Bucket. *)

EmptyBucket == [first |-> None, others |-> None]

(* K::IS_ZST and V::IS_ZST. *)
KeyIsZst == types \in {"key", "both"}
ValIsZst == types \in {"value", "both"}

(* HashMap::is_zst. *)
is_zst == KeyIsZst /\ ValIsZst

(* The keys and values of the table's types. *)
TypeKeys == IF KeyIsZst THEN {Unit} ELSE Keys

TypeVals == IF ValIsZst THEN {Unit} ELSE Vals

(* What a bucket of memory that nothing wrote can be read as, for keys ks  *)
(* and values vs: zero bytes, which are the empty bucket, or the bytes of  *)
(* a bucket that was stored there before.                                  *)
JunkBuckets(ks, vs) ==
    {EmptyBucket} \cup {[first |-> Some(<<k, v>>), others |-> None] : k \in ks, v \in vs}

(* Bucket::vec_of_empties: count buckets, zeroed only when count is not 0  *)
(* and neither K nor V is zero-sized; otherwise set_len exposes the        *)
(* allocation as it is.                                                    *)
vec_of_empties(count) ==
    IF count # 0 /\ (~KeyIsZst /\ ~ValIsZst)
    THEN [i \in 1..count |-> EmptyBucket]
    ELSE [i \in 1..count |-> junk]

(* Bucket::for_each_kv: first, then the overflow vector in order. *)
for_each_kv(b) == b.first \o (IF IsSome(b.others) THEN Unwrap(b.others) ELSE <<>>)

(* slice::Iter::position / find: the first index holding key k, or 0. *)
position(vec, k) ==
    LET hits == {i \in 1..Len(vec) : vec[i][1] = k}
    IN IF hits = {} THEN 0 ELSE CHOOSE i \in hits : \A j \in hits : i <= j

RemoveAt(vec, idx) == [i \in 1..(Len(vec) - 1) |-> IF i < idx THEN vec[i] ELSE vec[i + 1]]

(* Bucket::insert with the overflow forgotten: a key that meets an occupied *)
(* first slot takes the slot over.                                         *)
BucketInsertTakesFirst(b, k, v) ==
    [bucket |-> [b EXCEPT !.first = Some(<<k, v>>)],
     ret |-> IF IsSome(b.first) /\ Unwrap(b.first)[1] = k THEN b.first ELSE None]

BucketInsert(b, k, v) ==
    IF b.first = None
    THEN [bucket |-> [b EXCEPT !.first = Some(<<k, v>>)], ret |-> None]
    ELSE IF Unwrap(b.first)[1] = k
    THEN [bucket |-> [b EXCEPT !.first = Some(<<k, v>>)], ret |-> b.first]
    ELSE LET others == IF IsSome(b.others) THEN Unwrap(b.others) ELSE <<>>
         IN [bucket |-> [b EXCEPT !.others = Some(Append(others, <<k, v>>))],
             ret |-> None]

(* Bucket::get that looks at the first slot only. *)
BucketGetFirstOnly(b, k) ==
    IF IsSome(b.first) /\ Unwrap(b.first)[1] = k THEN b.first ELSE None

BucketGet(b, k) ==
    IF IsSome(b.first) /\ Unwrap(b.first)[1] = k
    THEN b.first
    ELSE IF b.others = None
    THEN None
    ELSE LET vec == Unwrap(b.others)
             idx == position(vec, k)
         IN IF idx = 0 THEN None ELSE Some(vec[idx])

(* Bucket::remove refilling the vacated first slot from the front of the  *)
(* overflow instead of popping its last element.                           *)
BucketRemovePromotesFront(b, k) ==
    IF IsSome(b.first) /\ Unwrap(b.first)[1] = k
    THEN LET v == Unwrap(b.first)[2]
         IN IF IsSome(b.others)
            THEN LET vec == Unwrap(b.others)
                     taken == IF vec = <<>> THEN None ELSE Some(vec[1])
                     rest == IF vec = <<>> THEN <<>> ELSE Tail(vec)
                 IN [bucket |-> [first |-> taken,
                                 others |-> IF rest = <<>> THEN None ELSE Some(rest)],
                     ret |-> Some(v)]
            ELSE [bucket |-> [b EXCEPT !.first = None], ret |-> Some(v)]
    ELSE IF b.others = None
    THEN [bucket |-> b, ret |-> None]
    ELSE LET vec == Unwrap(b.others)
             idx == position(vec, k)
         IN IF idx = 0
            THEN [bucket |-> b, ret |-> None]
            ELSE [bucket |-> [b EXCEPT !.others = Some(RemoveAt(vec, idx))],
                  ret |-> Some(vec[idx][2])]

BucketRemove(b, k) ==
    IF IsSome(b.first) /\ Unwrap(b.first)[1] = k
    THEN LET v == Unwrap(b.first)[2]
         IN IF IsSome(b.others)
            THEN LET vec == Unwrap(b.others)
                     popped == IF vec = <<>> THEN None ELSE Some(vec[Len(vec)])
                     rest == IF vec = <<>> THEN <<>> ELSE SubSeq(vec, 1, Len(vec) - 1)
                 IN [bucket |-> [first |-> popped,
                                 others |-> IF rest = <<>> THEN None ELSE Some(rest)],
                     ret |-> Some(v)]
            ELSE [bucket |-> [b EXCEPT !.first = None], ret |-> Some(v)]
    ELSE IF b.others = None
    THEN [bucket |-> b, ret |-> None]
    ELSE LET vec == Unwrap(b.others)
             idx == position(vec, k)
         IN IF idx = 0
            THEN [bucket |-> b, ret |-> None]
            ELSE [bucket |-> [b EXCEPT !.others = Some(RemoveAt(vec, idx))],
                  ret |-> Some(vec[idx][2])]

---------------------------------------------------------------------------
(* HashMap. *)

(* isize::MAX, at the width of the model's integers. *)
ISIZE_MAX == 2147483647

capacity(bs) == IF is_zst THEN ISIZE_MAX ELSE Len(bs)

(* HashMap::index: checked_rem of the hash by the number of buckets; the   *)
(* index is 0-based as in the code.                                        *)
index(bs, h, k) == IF Len(bs) = 0 THEN None ELSE Some(hash(h, k) % Len(bs))

(* HashMap::bucket / bucket_mut. *)
bucket(bs, h, k) ==
    LET idx == index(bs, h, k)
    IN IF idx = None THEN None ELSE Some(bs[Unwrap(idx) + 1])

get_kv(bs, h, k) ==
    LET b == bucket(bs, h, k)
    IN IF b = None THEN None ELSE BucketGet(Unwrap(b), k)

(* HashMap::get and HashMap::get_mut: the value of get_kv / get_mut_kv. *)
get(bs, h, k) ==
    LET kv == get_kv(bs, h, k)
    IN IF kv = None THEN None ELSE Some(Unwrap(kv)[2])

(* The entries of the old buckets in the order resize visits them. *)
RECURSIVE OldEntries(_)
OldEntries(bs) ==
    IF bs = <<>> THEN <<>> ELSE for_each_kv(Head(bs)) \o OldEntries(Tail(bs))

(* The loop of resize: self.bucket_mut(&k).unwrap().insert(k, v) for every *)
(* entry; the caller makes sure bs is not empty.                           *)
RECURSIVE Rehash(_, _, _)
Rehash(bs, h, entries) ==
    IF entries = <<>>
    THEN bs
    ELSE LET k == Head(entries)[1]
             v == Head(entries)[2]
             i == Unwrap(index(bs, h, k)) + 1
         IN Rehash([bs EXCEPT ![i] = BucketInsert(bs[i], k, v).bucket], h,
                   Tail(entries))

(* HashMap::resize: the new bucket array and how the call ends.           *)
(* new_capacity < 0 stands for a count near 2^64, which Vec::with_capacity *)
(* refuses ("capacity overflow").  When K and V are both zero-sized the    *)
(* bucket array is replaced and nothing is re-inserted.                    *)
resize(bs, n, h, dbg, new_capacity) ==
    IF new_capacity < 0
    THEN [buckets |-> bs, status |-> "capacity overflow"]
    ELSE IF is_zst
    THEN [buckets |-> vec_of_empties(new_capacity), status |-> "ok"]
    ELSE IF dbg /\ new_capacity = 0 /\ n # 0
    THEN [buckets |-> vec_of_empties(0), status |-> "assertion failed"]
    ELSE IF new_capacity = 0 /\ OldEntries(bs) # <<>>
    THEN [buckets |-> vec_of_empties(0), status |-> "unwrap on None"]
    ELSE [buckets |-> Rehash(vec_of_empties(new_capacity), h, OldEntries(bs)),
          status |-> "ok"]

(* HashMap::load_factor() > LOAD_FACTOR_MAX, for a capacity that is not 0. *)
(* A wrapped length is near 2^64 and exceeds it for every capacity.        *)
LoadFactorExceeds(n, cap) ==
    n < 0 \/ (cap # ISIZE_MAX /\ n * LOAD_FACTOR_MAX_DEN > cap * LOAD_FACTOR_MAX_NUM)

(* expand_if_needed without the case of an empty bucket array: capacity 0 *)
(* times 4 is capacity 0.                                                  *)
ExpandTargetNoInitial(bs, n) ==
    IF Len(bs) # 0 /\ ~LoadFactorExceeds(n, capacity(bs)) THEN capacity(bs)
    ELSE IF capacity(bs) = ISIZE_MAX THEN -GROWTH_FACTOR
    ELSE capacity(bs) * GROWTH_FACTOR

(* expand_if_needed with the load factor taken before the pending insert  *)
(* is counted.                                                             *)
ExpandTargetBeforeCount(bs, n) ==
    IF Len(bs) = 0 THEN INIT_CAPACITY
    ELSE IF LoadFactorExceeds(n - 1, capacity(bs)) THEN capacity(bs) * GROWTH_FACTOR
    ELSE capacity(bs)

(* The capacity HashMap::expand_if_needed resizes to; the current one when *)
(* it does not resize.  isize::MAX * 4 wraps to 2^64 - 4.                  *)
ExpandTarget(bs, n) ==
    IF Len(bs) = 0 THEN INIT_CAPACITY
    ELSE IF LoadFactorExceeds(n, capacity(bs))
    THEN IF capacity(bs) = ISIZE_MAX THEN -GROWTH_FACTOR
         ELSE capacity(bs) * GROWTH_FACTOR
    ELSE capacity(bs)

(* The number of buckets expand_if_needed allocates. *)
ExpandAllocates(bs, n) ==
    IF ExpandTarget(bs, n) = capacity(bs) THEN 0 ELSE ExpandTarget(bs, n)

expand_if_needed(bs, n, h, dbg) ==
    IF ExpandTarget(bs, n) = capacity(bs)
    THEN [buckets |-> bs, status |-> "ok"]
    ELSE resize(bs, n, h, dbg, ExpandTarget(bs, n))

(* insert_kv with the bucket index taken before expand_if_needed runs. *)
insert_kvIndexBeforeGrowth(bs, n, h, dbg, k, v) ==
    LET n1 == n + 1
        idx == index(bs, h, k)
        grown == expand_if_needed(bs, n1, h, dbg)
    IN IF grown.status # "ok"
       THEN [buckets |-> grown.buckets, len |-> n1, status |-> grown.status, ret |-> None]
       ELSE IF idx = None
       THEN [buckets |-> grown.buckets, len |-> n1, status |-> "ok", ret |-> None]
       ELSE LET i == Unwrap(idx) + 1
                r == BucketInsert(grown.buckets[i], k, v)
            IN [buckets |-> [grown.buckets EXCEPT ![i] = r.bucket],
                len |-> n1, status |-> "ok", ret |-> r.ret]

(* HashMap::insert_kv: len += 1, expand_if_needed, then the bucket's       *)
(* insert; the ? returns None when there is no bucket.                     *)
insert_kv(bs, n, h, dbg, k, v) ==
    LET n1 == n + 1
        grown == expand_if_needed(bs, n1, h, dbg)
        idx == index(grown.buckets, h, k)
    IN IF grown.status # "ok"
       THEN [buckets |-> grown.buckets, len |-> n1, status |-> grown.status, ret |-> None]
       ELSE IF idx = None
       THEN [buckets |-> grown.buckets, len |-> n1, status |-> "ok", ret |-> None]
       ELSE LET i == Unwrap(idx) + 1
                r == BucketInsert(grown.buckets[i], k, v)
            IN [buckets |-> [grown.buckets EXCEPT ![i] = r.bucket],
                len |-> n1, status |-> "ok", ret |-> r.ret]

(* HashMap::remove: len -= 1 (a panic in a debug build when len is 0, a    *)
(* wrap in a release build), then the bucket's remove.                     *)
remove(bs, n, h, dbg, k) ==
    IF dbg /\ n = 0
    THEN [buckets |-> bs, len |-> n, status |-> "subtract with overflow", ret |-> None]
    ELSE LET idx == index(bs, h, k)
         IN IF idx = None
            THEN [buckets |-> bs, len |-> n - 1, status |-> "ok", ret |-> None]
            ELSE LET i == Unwrap(idx) + 1
                     r == BucketRemove(bs[i], k)
                 IN [buckets |-> [bs EXCEPT ![i] = r.bucket],
                     len |-> n - 1, status |-> "ok", ret |-> r.ret]

(* The capacity HashMap::reserve_exact asks for: len + additional. *)
ReserveTarget(n, additional) == n + additional

(* The capacity HashMap::shrink_to resizes to:                             *)
(* max((len as f64 / LOAD_FACTOR_MAX) as usize, min_capacity).  The cast   *)
(* truncates; for a wrapped length it saturates at usize::MAX (-1 here).   *)
ShrinkTarget(n, min_capacity) ==
    IF n < 0 THEN -1
    ELSE LET needed_capacity == (n * LOAD_FACTOR_MAX_DEN) \div LOAD_FACTOR_MAX_NUM
         IN IF needed_capacity > min_capacity THEN needed_capacity ELSE min_capacity

---------------------------------------------------------------------------
(* Iterators.  An iterator over a bucket is its first slot and the rest of *)
(* its overflow; an iterator over the table is the buckets not yet visited *)
(* and the iterator of the current bucket.                                 *)

(* IntoIterator for &Bucket, &mut Bucket and Bucket. *)
BucketIterNew(b) ==
    [first |-> b.first,
     others |-> IF IsSome(b.others) THEN Unwrap(b.others) ELSE <<>>]

(* BucketIter::next, BucketIterMut::next, BucketIntoIter::next. *)
BucketIterNext(bi) ==
    IF IsSome(bi.first)
    THEN [iter |-> [bi EXCEPT !.first = None], item |-> bi.first]
    ELSE IF bi.others # <<>>
    THEN [iter |-> [bi EXCEPT !.others = Tail(bi.others)], item |-> Some(Head(bi.others))]
    ELSE [iter |-> bi, item |-> None]

(* Iter::new, IterMut::new, IntoIter::new. *)
IterNew(bs) == [buckets |-> bs, current_bucket |-> None]

(* slice::Iter::next on the buckets, mapped to the bucket's iterator. *)
NextBucket(it) ==
    IF it.buckets = <<>>
    THEN [buckets |-> <<>>, current_bucket |-> None]
    ELSE [buckets |-> Tail(it.buckets),
          current_bucket |-> Some(BucketIterNew(Head(it.buckets)))]

(* Iter::next that ends with the bucket it is in instead of going on to   *)
(* the next one.                                                           *)
IterNextOneBucket(it) ==
    IF IsSome(it.current_bucket)
    THEN LET r == BucketIterNext(Unwrap(it.current_bucket))
         IN [iter |-> [it EXCEPT !.current_bucket = Some(r.iter)], item |-> r.item]
    ELSE IF it.buckets = <<>>
    THEN [iter |-> it, item |-> None]
    ELSE LET nb == NextBucket(it)
             r == BucketIterNext(Unwrap(nb.current_bucket))
         IN [iter |-> [nb EXCEPT !.current_bucket = Some(r.iter)], item |-> r.item]

RECURSIVE IterNext(_)
(* Iter::next: the loop over current_bucket. *)
IterNext(it) ==
    IF IsSome(it.current_bucket)
    THEN LET r == BucketIterNext(Unwrap(it.current_bucket))
         IN IF IsSome(r.item)
            THEN [iter |-> [it EXCEPT !.current_bucket = Some(r.iter)], item |-> r.item]
            ELSE IterNext(NextBucket(it))
    ELSE IF it.buckets = <<>>
    THEN [iter |-> it, item |-> None]
    ELSE IterNext(NextBucket(it))

(* IterMut::next and IntoIter::next are the same loop over their own       *)
(* bucket iterators.                                                       *)
IterMutNext(it) == IterNext(it)

IntoIterNext(it) == IterNext(it)

Modes == {"iter", "iter_mut", "into_iter"}

NextOf(mode, it) ==
    CASE mode = "iter" -> IterNext(it)
      [] mode = "iter_mut" -> IterMutNext(it)
      [] mode = "into_iter" -> IntoIterNext(it)

RECURSIVE Drain(_, _)
(* The items a caller gets by calling next until it returns None. *)
Drain(mode, it) ==
    LET r == NextOf(mode, it)
    IN IF r.item = None THEN <<>> ELSE r.item \o Drain(mode, r.iter)

---------------------------------------------------------------------------
(* The state of the table as its callers see it. *)

Get(k) == get(buckets, hasher, k)

AllEntries == OldEntries(buckets)

EntryCount == Len(AllEntries)

NoOp == [name |-> "new", k |-> 0, v |-> 0, n |-> 0]

Call(name, k, v, n) == [name |-> name, k |-> k, v |-> v, n |-> n]

NoInserted == [k \in AllKeys |-> None]

(* HashMap::new() is with_capacity(0); with_capacity(n) allocates n empty  *)
(* buckets.  The hasher and the build profile are fixed for the run.       *)
(* K and V are of non-zero size.                                           *)
Init ==
    /\ types = "sized"
    /\ junk = EmptyBucket
    /\ \E n \in 0..MaxInitCap : buckets = vec_of_empties(n)
    /\ len = 0
    /\ hasher \in {"default", "zero"}
    /\ debug \in BOOLEAN
    /\ status = "ok"
    /\ op = NoOp
    /\ ret = None
    /\ distinct = TRUE
    /\ inserted = NoInserted
    /\ iterator = None

(* The same for any K and V: which of them are zero-sized, and what the    *)
(* memory that vec_of_empties does not zero is read as, are fixed for the  *)
(* run.                                                                    *)
InitOf(kinds, caps) ==
    /\ types \in kinds
    /\ junk \in IF types = "sized" THEN {EmptyBucket} ELSE JunkBuckets(TypeKeys, TypeVals)
    /\ \E n \in caps : buckets = vec_of_empties(n)
    /\ len = 0
    /\ hasher \in {"default", "zero"}
    /\ debug \in BOOLEAN
    /\ status = "ok"
    /\ op = NoOp
    /\ ret = None
    /\ distinct = FALSE
    /\ inserted = NoInserted
    /\ iterator = None

(* HashMap<K, V>::with_capacity(n) for every choice of K and V. *)
InitTypes == InitOf({"sized", "value", "key", "both"}, 0..MaxInitCap)

(* HashMap<(), ()>::new(). *)
InitZst == InitOf({"both"}, {0})

(* HashSet<T>::with_capacity(n): a HashMap<T, ()>. *)
InitSet == InitOf({"value"}, 0..MaxInitCap)

NotDistinct ==
    /\ distinct' = FALSE
    /\ inserted' = NoInserted

Insert(k, v) ==
    /\ status = "ok"
    /\ ExpandAllocates(buckets, len + 1) <= MaxCap
    /\ LET r == insert_kv(buckets, len, hasher, debug, k, v)
       IN /\ buckets' = r.buckets
          /\ len' = r.len
          /\ status' = r.status
          /\ ret' = IF r.ret = None THEN None ELSE Some(Unwrap(r.ret)[2])
    /\ op' = Call("insert", k, v, 0)
    /\ IF distinct /\ inserted[k] = None
       THEN /\ distinct' = TRUE
            /\ inserted' = [inserted EXCEPT ![k] = Some(v)]
       ELSE NotDistinct
    /\ UNCHANGED env

Remove(k) ==
    /\ status = "ok"
    /\ LET r == remove(buckets, len, hasher, debug, k)
       IN /\ buckets' = r.buckets
          /\ len' = r.len
          /\ status' = r.status
          /\ ret' = r.ret
    /\ op' = Call("remove", k, 0, 0)
    /\ NotDistinct
    /\ UNCHANGED env

DoResize(name, arg, new_capacity) ==
    /\ status = "ok"
    /\ new_capacity <= MaxCap
    /\ LET r == resize(buckets, len, hasher, debug, new_capacity)
       IN /\ buckets' = r.buckets
          /\ status' = r.status
    /\ op' = Call(name, 0, 0, arg)
    /\ ret' = None
    /\ NotDistinct
    /\ UNCHANGED <<len, env>>

(* A direct call of the pub(crate) resize, as the tests make. *)
Resize(n) == DoResize("resize", n, n)

ResizeZero == DoResize("resize", 0, 0)

ReserveExactAs(name, additional) ==
    IF capacity(buckets) < ReserveTarget(len, additional) \/ ReserveTarget(len, additional) < 0
    THEN DoResize(name, additional, ReserveTarget(len, additional))
    ELSE /\ status = "ok"
         /\ op' = Call(name, 0, 0, additional)
         /\ ret' = None
         /\ NotDistinct
         /\ UNCHANGED <<buckets, len, status, env>>

ReserveExact(additional) == ReserveExactAs("reserve_exact", additional)

Reserve(additional) == ReserveExactAs("reserve", additional)

ShrinkTo(min_capacity) ==
    DoResize("shrink_to", min_capacity, ShrinkTarget(len, min_capacity))

ShrinkToFit == DoResize("shrink_to_fit", 0, ShrinkTarget(len, 0))

GetCall(k) ==
    /\ status = "ok"
    /\ op' = Call("get", k, 0, 0)
    /\ ret' = Get(k)
    /\ NotDistinct
    /\ UNCHANGED <<buckets, len, status, env>>

GetMutCall(k) ==
    /\ status = "ok"
    /\ op' = Call("get_mut", k, 0, 0)
    /\ ret' = Get(k)
    /\ NotDistinct
    /\ UNCHANGED <<buckets, len, status, env>>

(* HashSet::insert: insert_kv with the unit value, the key of the         *)
(* displaced pair returned.  For a set, inserted records every element     *)
(* that was inserted.                                                      *)
SetInsert(x) ==
    /\ status = "ok"
    /\ ExpandAllocates(buckets, len + 1) <= MaxCap
    /\ LET r == insert_kv(buckets, len, hasher, debug, x, Unit)
       IN /\ buckets' = r.buckets
          /\ len' = r.len
          /\ status' = r.status
          /\ ret' = IF r.ret = None THEN None ELSE Some(Unwrap(r.ret)[1])
    /\ op' = Call("set_insert", x, 0, 0)
    /\ inserted' = [inserted EXCEPT ![x] = Some(Unit)]
    /\ UNCHANGED <<distinct, env>>

(* HashSet::get: get_kv with the unit value stripped. *)
SetGet(x) ==
    /\ status = "ok"
    /\ op' = Call("set_get", x, 0, 0)
    /\ ret' = LET kv == get_kv(buckets, hasher, x)
              IN IF kv = None THEN None ELSE Some(Unwrap(kv)[1])
    /\ UNCHANGED <<buckets, len, status, distinct, inserted, env>>

(* The iterators of HashSet: those of the map with the unit value stripped. *)
SetItems(mode) ==
    LET items == Drain(mode, IterNew(buckets))
    IN [i \in 1..Len(items) |-> items[i][1]]

SetIterate(mode) ==
    /\ status = "ok"
    /\ op' = Call(mode, 0, 0, 0)
    /\ ret' = SetItems(mode)
    /\ status' = IF mode = "into_iter" THEN "moved" ELSE "ok"
    /\ UNCHANGED <<buckets, len, distinct, inserted, env>>

(* A full iteration in one of the three modes; into_iter takes the table, *)
(* which no call can use afterwards.                                       *)
Iterate(mode) ==
    /\ status = "ok"
    /\ op' = Call(mode, 0, 0, 0)
    /\ ret' = Drain(mode, IterNew(buckets))
    /\ status' = IF mode = "into_iter" THEN "moved" ELSE "ok"
    /\ NotDistinct
    /\ UNCHANGED <<buckets, len, env>>

(* HashMap::iter, iter_mut and into_iter: the caller takes an iterator    *)
(* over the buckets.  While it is held the borrow (or, for into_iter, the  *)
(* move) keeps every other call off the table.                             *)
IterStart(mode) ==
    /\ status = "ok"
    /\ iterator = None
    /\ iterator' = Some([mode |-> mode, it |-> IterNew(buckets),
                         calls |-> 0, nones |-> 0, yielded |-> <<>>])
    /\ op' = Call("iterator", 0, 0, 0)
    /\ ret' = None
    /\ status' = IF mode = "into_iter" THEN "moved" ELSE "ok"
    /\ NotDistinct
    /\ UNCHANGED <<buckets, len, hasher, debug, types, junk>>

(* One call of next on the iterator the caller holds. *)
NextCall ==
    /\ IsSome(iterator)
    /\ LET c == Unwrap(iterator)
           r == NextOf(c.mode, c.it)
       IN /\ c.nones < MaxNone
          /\ iterator' = Some([c EXCEPT !.it = r.iter,
                                        !.calls = @ + 1,
                                        !.nones = IF r.item = None THEN @ + 1 ELSE @,
                                        !.yielded = @ \o r.item])
          /\ ret' = r.item
    /\ op' = Call("next", 0, 0, 0)
    /\ UNCHANGED <<buckets, len, status, distinct, inserted, hasher, debug, types, junk>>

(* No iterator is held: the table can be called. *)
NotBorrowed == iterator = None

(* The calls the model makes are bounded: see the bounds above. *)
InsertBounded == len < MaxLen /\ EntryCount < MaxEntries

RemoveBounded == len > -MaxUnder

NextPublic ==
    \/ \E k \in Keys, v \in Vals : InsertBounded /\ Insert(k, v)
    \/ \E k \in Keys : RemoveBounded /\ Remove(k)
    \/ \E k \in Keys : GetCall(k)
    \/ \E k \in Keys : GetMutCall(k)
    \/ \E n \in 0..MaxAdditional : Reserve(n)
    \/ \E n \in 0..MaxAdditional : ReserveExact(n)
    \/ \E n \in 0..MaxMinCap : ShrinkTo(n)
    \/ ShrinkToFit

NextContract ==
    \/ NextPublic
    \/ \E n \in 1..MaxResize : Resize(n)

Next ==
    \/ NextContract
    \/ ResizeZero

(* Inserts alone, each of a key that no earlier call inserted. *)
NextDistinctInserts ==
    \E k \in GrowKeys, v \in Vals :
        len < MaxGrowLen /\ distinct /\ inserted[k] = None /\ Insert(k, v)

(* Inserts of keys that are not stored, and direct resizes. *)
NextNewKeys ==
    \/ \E k \in GrowKeys, v \in Vals :
          len < MaxGrowLen /\ Get(k) = None /\ Insert(k, v)
    \/ \E n \in 1..MaxResize : Resize(n)

(* Inserts, removes, direct resizes, and full iterations. *)
NextIterate ==
    \/ \E k \in Keys, v \in Vals : InsertBounded /\ Insert(k, v)
    \/ \E k \in Keys : RemoveBounded /\ Remove(k)
    \/ \E n \in 1..MaxResize : Resize(n)
    \/ \E mode \in Modes : Iterate(mode)

(* Inserts of a key with itself as the value, as the rehash test makes,   *)
(* removes and direct resizes.                                             *)
NextInsertRemoveResize ==
    \/ \E k \in Keys : InsertBounded /\ Insert(k, k)
    \/ \E k \in Keys : RemoveBounded /\ Remove(k)
    \/ \E n \in 1..MaxResize : Resize(n)

(* Inserts of a key with itself as the value and removes, then an          *)
(* iterator stepped call by call.                                          *)
NextStepwise ==
    \/ \E k \in Keys : NotBorrowed /\ InsertBounded /\ Insert(k, k)
    \/ \E k \in Keys : NotBorrowed /\ RemoveBounded /\ Remove(k)
    \/ \E mode \in Modes : IterStart(mode)
    \/ NextCall

(* Inserts of a key with itself as the value, removes, and lookups. *)
NextLookup ==
    \/ \E k \in Keys : InsertBounded /\ Insert(k, k)
    \/ \E k \in Keys : RemoveBounded /\ Remove(k)
    \/ \E k \in Keys : GetCall(k)
    \/ \E k \in Keys : GetMutCall(k)

(* The operations that allocate a bucket array, and get, on any K and V. *)
NextTypes ==
    \/ \E k \in TypeKeys, v \in TypeVals : len < MaxTypesLen /\ Insert(k, v)
    \/ \E k \in TypeKeys : GetCall(k)
    \/ \E n \in 0..MaxResize : Resize(n)
    \/ \E n \in 0..MaxAdditional : Reserve(n)
    \/ \E n \in 0..MaxMinCap : ShrinkTo(n)
    \/ ShrinkToFit

(* The operations of a set that its elements are observed through. *)
NextSet ==
    \/ \E x \in Keys : len < MaxTypesLen /\ SetInsert(x)
    \/ \E x \in Keys : SetGet(x)
    \/ \E mode \in Modes : SetIterate(mode)

(* Every operation, the pub(crate) resize with any target included. *)
Spec == Init /\ [][Next]_vars

(* Every operation, resize only with a target that is not 0. *)
SpecContract == Init /\ [][NextContract]_vars

(* The public operations only. *)
SpecPublic == Init /\ [][NextPublic]_vars

SpecDistinctInserts == Init /\ [][NextDistinctInserts]_vars

SpecNewKeys == Init /\ [][NextNewKeys]_vars

SpecIterate == Init /\ [][NextIterate]_vars

SpecInsertRemoveResize == Init /\ [][NextInsertRemoveResize]_vars

SpecLookup == Init /\ [][NextLookup]_vars

SpecStepwise == Init /\ [][NextStepwise]_vars

SpecTypes == InitTypes /\ [][NextTypes]_vars

SpecZst == InitZst /\ [][NextTypes]_vars

SpecSet == InitSet /\ [][NextSet]_vars

---------------------------------------------------------------------------
(* What the claims speak of. *)

LoadFactorOk == ~LoadFactorExceeds(len, capacity(buckets))

InsertedCount == Cardinality({k \in AllKeys : IsSome(inserted[k])})

BucketKeys(b) == [i \in 1..Len(for_each_kv(b)) |-> for_each_kv(b)[i][1]]

HasDuplicateKey(b) ==
    \E i, j \in 1..Len(BucketKeys(b)) : i # j /\ BucketKeys(b)[i] = BucketKeys(b)[j]

OverflowLen(b) == IF IsSome(b.others) THEN Len(Unwrap(b.others)) ELSE 0

(* C1: in every state reached by insert, remove, reserve, reserve_exact,   *)
(* shrink_to, shrink_to_fit and resize with a target that is not 0, len()  *)
(* equals the number of entries stored across all buckets.                 *)
C1_LenIsEntryCount == status = "ok" => len = EntryCount

(* C2: in every reachable state no bucket (first slot and overflow         *)
(* together) holds two entries with equal keys.                            *)
C2_OneEntryPerKey ==
    status = "ok" => \A i \in 1..Len(buckets) : ~HasDuplicateKey(buckets[i])

(* C3: insert(k, v) on a table that holds an entry for k, in the first     *)
(* slot or in the overflow, returns the value stored before, and a get(k)  *)
(* right after it returns v.                                               *)
C3_InsertReplaces ==
    [][\A k \in Keys, v \in Vals :
          (op' = Call("insert", k, v, 0) /\ IsSome(Get(k)))
              => (status' = "ok" /\ ret' = Get(k) /\ Get(k)' = Some(v))]_vars

(* C4: after any sequence of inserts with pairwise distinct keys on a      *)
(* fresh table, get on each inserted key returns the value inserted for    *)
(* it, get on a key never inserted is absent, and len() is the number of   *)
(* keys inserted.                                                          *)
C4_DistinctInsertsRoundTrip ==
    distinct =>
        /\ status = "ok"
        /\ \A k \in AllKeys : Get(k) = inserted[k]
        /\ len = InsertedCount

(* C4's case: four distinct keys inserted into with_capacity(1), which     *)
(* grew to 4 and then to 16 buckets, all four colliding in one bucket.     *)
C4_Witness ==
    /\ distinct
    /\ InsertedCount = 4
    /\ capacity(buckets) = 16
    /\ \E i \in 1..Len(buckets) : OverflowLen(buckets[i]) = 3

(* C5: remove(k) of a key that get(k) reports present returns the value    *)
(* get(k) would have returned, get(k) is absent afterwards, and get(j) of  *)
(* every other key j is what it was.                                       *)
C5_RemovePresent ==
    [][\A k \in Keys :
          (op' = Call("remove", k, 0, 0) /\ IsSome(Get(k)))
              => /\ status' = "ok"
                 /\ ret' = Get(k)
                 /\ Get(k)' = None
                 /\ \A j \in Keys \ {k} : Get(j)' = Get(j)]_vars

(* C6: remove(k) of a key that is not stored returns absent and leaves     *)
(* len(), capacity() and every stored entry as they were.                  *)
C6_RemoveAbsent ==
    [][\A k \in Keys :
          (op' = Call("remove", k, 0, 0) /\ Get(k) = None)
              => /\ status' = "ok"
                 /\ ret' = None
                 /\ len' = len
                 /\ buckets' = buckets]_vars

(* C7: no sequence of the public operations reaches a panic or a wrap of   *)
(* the length counter below zero.                                          *)
C7_PublicNeverFatal == status = "ok" /\ len >= 0

(* C8: after resize(new_capacity) with new_capacity >= 1, get(k) is for    *)
(* every key what it was before, and capacity() is new_capacity.           *)
C8_ResizeKeepsContents ==
    [][\A n \in 1..MaxResize :
          op' = Call("resize", 0, 0, n)
              => /\ status' = "ok"
                 /\ capacity(buckets)' = n
                 /\ \A k \in AllKeys : Get(k)' = Get(k)]_vars

(* C9: after shrink_to_fit() on a table holding at least one entry,        *)
(* len() / capacity() <= 0.75 and every key keeps its value.               *)
C9_ShrinkToFitLoad ==
    [][(op' = Call("shrink_to_fit", 0, 0, 0) /\ EntryCount >= 1)
          => /\ status' = "ok"
             /\ LoadFactorOk'
             /\ \A k \in Keys : Get(k)' = Get(k)]_vars

(* C10: right after every insert returns, whatever the state before it,    *)
(* len() / capacity() does not exceed 0.75.                                *)
C10_LoadAfterInsert ==
    (op.name = "insert" /\ status = "ok") => LoadFactorOk

(* C11: a full iteration, in each of the three modes and in every          *)
(* reachable state, yields for every key k that get(k) reports present     *)
(* exactly one pair (k, v), with v the value of get(k), yields no other    *)
(* pair, and yields len() pairs in all.                                    *)
C11_IterationIsContents ==
    [][\A mode \in Modes :
          op' = Call(mode, 0, 0, 0)
              => /\ \A k \in Keys :
                       IsSome(Get(k))
                           => Cardinality({i \in 1..Len(ret') : ret'[i][1] = k}) = 1
                 /\ \A i \in 1..Len(ret') : Get(ret'[i][1]) = Some(ret'[i][2])
                 /\ Len(ret') = len]_vars

AllEmpty(bs) == bs = [i \in 1..Len(bs) |-> EmptyBucket]

(* C12: a table whose key and value types are both zero-sized, made by     *)
(* new(): capacity() is the largest value, the bucket array never has a    *)
(* length other than 0, get is absent before the first insert and present  *)
(* after it, and no more than one entry is stored.                         *)
C12_ZstNeverAllocates ==
    status = "ok" =>
        /\ capacity(buckets) = ISIZE_MAX
        /\ Len(buckets) = 0
        /\ IsSome(Get(Unit)) <=> len >= 1
        /\ EntryCount <= 1

(* C13: for every choice of key and value types, the bucket array that     *)
(* with_capacity(n) makes, and the one resize(n) makes before it           *)
(* re-inserts, is n buckets with the first slot empty and no overflow.     *)
C13_NewBucketsAreEmpty ==
    /\ op = NoOp => AllEmpty(buckets)
    /\ \A n \in 0..MaxCap : Len(vec_of_empties(n)) = n /\ AllEmpty(vec_of_empties(n))

SetHas(x) == IsSome(get_kv(buckets, hasher, x))

Occurrences(seq, x) == Cardinality({i \in 1..Len(seq) : seq[i] = x})

(* C15: a set after any sequence of inserts: get(x) is present exactly     *)
(* for the elements inserted, insert(x) returns x exactly when x was       *)
(* inserted before, and an iteration yields each element inserted once     *)
(* and nothing else.                                                       *)
C15_SetIsTableOverUnit ==
    [][/\ \A x \in Keys : SetHas(x) <=> IsSome(inserted[x])
       /\ \A x \in Keys : SetHas(x)' <=> IsSome(inserted'[x])
       /\ \A x \in Keys :
             op' = Call("set_insert", x, 0, 0)
                 => /\ status' = "ok"
                    /\ ret' = IF IsSome(inserted[x]) THEN Some(x) ELSE None
       /\ \A mode \in Modes :
             op' = Call(mode, 0, 0, 0)
                 => /\ \A x \in Keys :
                          Occurrences(ret', x) = IF IsSome(inserted[x]) THEN 1 ELSE 0
                    /\ \A i \in 1..Len(ret') : ret'[i] \in Keys]_vars

(* capacity() >= n for a length n, which is near 2^64 when it is negative. *)
CapacityCovers(n) == n >= 0 /\ capacity(buckets) >= n

(* C14: after reserve(additional) or reserve_exact(additional), with K and *)
(* V of non-zero size, capacity() >= len() + additional and capacity() is  *)
(* not below what it was; when it was already len() + additional or more   *)
(* nothing changes; every key keeps its value.                             *)
C14_ReserveCoversAdditional ==
    [][\A name \in {"reserve", "reserve_exact"}, additional \in 0..MaxAdditional :
          op' = Call(name, 0, 0, additional)
              => /\ status' = "ok"
                 /\ CapacityCovers(len + additional)'
                 /\ capacity(buckets)' >= capacity(buckets)
                 /\ CapacityCovers(len + additional) => (buckets' = buckets /\ len' = len)
                 /\ \A k \in Keys : Get(k)' = Get(k)]_vars

(* C16: resize(0) on a table that stores at least one entry ends in a      *)
(* panic, whatever len() is; on a table that stores no entry it returns    *)
(* and capacity() is 0.                                                    *)
C16_ResizeToZero ==
    [][op' = Call("resize", 0, 0, 0)
          => IF EntryCount >= 1
             THEN status' # "ok"
             ELSE status' = "ok" /\ capacity(buckets)' = 0]_vars

(* C17: an insert on capacity 0 makes the capacity 32; on another          *)
(* capacity c, with n the length that counts the pending insert, it makes  *)
(* the capacity 4 * c when n / c > 0.75 and leaves it c otherwise.  So an  *)
(* insert never lowers the capacity and grows it at most once.             *)
C17_GrowthPolicy ==
    [][\A k \in AllKeys, v \in Vals :
          op' = Call("insert", k, v, 0)
              => /\ status' = "ok"
                 /\ Len(buckets') =
                        IF Len(buckets) = 0 THEN 32
                        ELSE IF len + 1 < 0 \/ (len + 1) * 4 > Len(buckets) * 3
                        THEN 4 * Len(buckets)
                        ELSE Len(buckets)]_vars

(* C17's case: the fourth insert into with_capacity(1), which grew from 1  *)
(* to 4 on the first insert, stayed at 4 on the second and the third, and  *)
(* grew to 16 on the fourth.                                               *)
C17_Witness ==
    /\ op.name = "insert"
    /\ status = "ok"
    /\ len = 4
    /\ Len(buckets) = 16

Max(a, b) == IF a >= b THEN a ELSE b

(* floor(len() / 0.75). *)
FloorOfLenOverMax == (len * 4) \div 3

(* c is the least capacity at which len() / c <= 0.75. *)
LeastCapacityForLoad(c) ==
    /\ len * 4 <= c * 3
    /\ \A b \in 0..(c - 1) : len * 4 > b * 3

(* C18: after shrink_to(min_capacity), and after shrink_to_fit() with      *)
(* min_capacity taken as 0, on a table with K and V of non-zero size,      *)
(* capacity() is max(floor(len() / 0.75), min_capacity), which is the      *)
(* least capacity that keeps len() / capacity() <= 0.75 when min_capacity  *)
(* is below it, and every key keeps its value.                             *)
C18_ShrinkToCapacity ==
    [][\A name \in {"shrink_to", "shrink_to_fit"}, min_capacity \in 0..MaxMinCap :
          (/\ types = "sized"
           /\ op' = Call(name, 0, 0, min_capacity)
           /\ name = "shrink_to_fit" => min_capacity = 0)
              => /\ status' = "ok"
                 /\ capacity(buckets)' = Max(FloorOfLenOverMax, min_capacity)
                 /\ min_capacity < FloorOfLenOverMax
                        => LeastCapacityForLoad(capacity(buckets))'
                 /\ \A k \in Keys : Get(k)' = Get(k)]_vars

(* C19: in every reachable state the overflow container of every bucket    *)
(* is present if and only if it holds at least one entry.                  *)
C19_NoEmptyOverflow ==
    status = "ok" =>
        \A i \in 1..Len(buckets) :
            IsSome(buckets[i].others) <=> OverflowLen(buckets[i]) >= 1

(* The entries of a bucket's overflow, in order. *)
Overflow(b) == IF IsSome(b.others) THEN Unwrap(b.others) ELSE <<>>

FirstSlotFilledFirst(bs) ==
    \A i \in 1..Len(bs) : bs[i].first = None => OverflowLen(bs[i]) = 0

(* rest is vec without its element at idx, the others in their order. *)
IsWithout(rest, vec, idx) ==
    /\ Len(rest) = Len(vec) - 1
    /\ \A j \in 1..Len(rest) : rest[j] = IF j < idx THEN vec[j] ELSE vec[j + 1]

EntriesOf(bs, i) == {for_each_kv(bs[i])[j] : j \in 1..Len(for_each_kv(bs[i]))}

(* C21: in every reachable state of a table with capacity c >= 1, every    *)
(* stored entry with key k is in the bucket at index hash(k) mod c.        *)
C21_EntriesInTheirBucket ==
    (status = "ok" /\ Len(buckets) >= 1) =>
        \A i \in 1..Len(buckets) :
            \A e \in EntriesOf(buckets, i) : (hash(hasher, e[1]) % Len(buckets)) = i - 1

(* C21's case: a resize to 2 buckets that re-placed entries of keys with   *)
(* different hashes, which now sit in different buckets.                   *)
C21_Witness ==
    /\ op.name = "resize"
    /\ status = "ok"
    /\ Len(buckets) = 2
    /\ EntriesOf(buckets, 1) # {}
    /\ EntriesOf(buckets, 2) # {}

(* C24: an insert that returns has stored its entry: the bucket array is   *)
(* not empty when the bucket is selected, so the return taken when there   *)
(* is no bucket, which stores nothing, is never taken.                     *)
C24_InsertStores ==
    [][\A k \in Keys, v \in AllKeys :
          (op' = Call("insert", k, v, 0) /\ status' = "ok")
              => /\ Len(buckets') >= 1
                 /\ <<k, v>> \in EntriesOf(buckets', (hash(hasher, k) % Len(buckets')) + 1)]_vars

(* C24's case: the first insert into a table of capacity 0, which grew to  *)
(* 32 buckets and stored its entry.                                        *)
C24_Witness ==
    /\ op.name = "insert"
    /\ status = "ok"
    /\ len = 1
    /\ Len(buckets) = 32
    /\ EntryCount = 1

(* An entry with key k is stored in some bucket. *)
IsStored(k) == \E i \in 1..Len(buckets) : \E e \in EntriesOf(buckets, i) : e[1] = k

(* C23: get(k) and get_mut(k) return without a panic, absent on a table    *)
(* of capacity 0, and on any table present exactly when an entry with key  *)
(* k is stored; the lookup changes neither len(), nor capacity(), nor any  *)
(* stored entry.                                                           *)
C23_LookupFindsStored ==
    [][\A name \in {"get", "get_mut"}, k \in Keys :
          op' = Call(name, k, 0, 0)
              => /\ status' = "ok"
                 /\ Len(buckets) = 0 => ret' = None
                 /\ IsSome(ret') <=> IsStored(k)
                 /\ len' = len
                 /\ buckets' = buckets]_vars

(* C23's case: a get that found its key in the overflow of a bucket whose  *)
(* first slot holds another key.                                           *)
C23_Witness ==
    /\ op.name = "get"
    /\ status = "ok"
    /\ IsSome(ret)
    /\ \E i \in 1..Len(buckets) :
          /\ IsSome(buckets[i].first)
          /\ Unwrap(buckets[i].first)[1] # op.k
          /\ \E j \in 1..OverflowLen(buckets[i]) : Overflow(buckets[i])[j][1] = op.k

(* The entries of the buckets bs from bucket number i on: bucket by bucket *)
(* in array order, the first slot if it is occupied and then the overflow  *)
(* in stored order.                                                        *)
RECURSIVE InArrayOrder(_, _)
InArrayOrder(bs, i) ==
    IF i > Len(bs) THEN <<>>
    ELSE bs[i].first
         \o (IF IsSome(bs[i].others) THEN Unwrap(bs[i].others) ELSE <<>>)
         \o InArrayOrder(bs, i + 1)

(* C22: in each of the three modes, the n-th call of next on an iterator   *)
(* returns the n-th entry of the table in array order (per bucket the      *)
(* first slot, then the overflow in stored order; empty buckets give       *)
(* nothing); the call after the last entry returns None, and so does every *)
(* later call.                                                             *)
C22_NextYieldsInArrayOrder ==
    IsSome(iterator) =>
        LET c == Unwrap(iterator)
            all == InArrayOrder(buckets, 1)
        IN /\ c.calls <= Len(all) => c.yielded = SubSeq(all, 1, c.calls)
           /\ (c.calls >= 1 /\ c.calls <= Len(all)) => ret = Some(all[c.calls])
           /\ c.calls > Len(all) => (c.yielded = all /\ ret = None)

(* C22's case: an iterator that went over an empty bucket and a bucket     *)
(* with an overflow, returned every entry, and then None twice.            *)
C22_Witness ==
    /\ IsSome(iterator)
    /\ Unwrap(iterator).mode = "iter_mut"
    /\ Unwrap(iterator).nones = 2
    /\ Len(Unwrap(iterator).yielded) = 3
    /\ Len(buckets) >= 2
    /\ buckets[1] = EmptyBucket
    /\ \E i \in 1..Len(buckets) : OverflowLen(buckets[i]) >= 1

===========================================================================
